---- MODULE Spec2Model ----
(***************************************************************************)
(* TaskSchemaUpdater (packages/task/src/browser/task-schema-updater.ts).   *)
(*                                                                         *)
(* The updater keeps two module-level arrays, problemMatcherNames and      *)
(* supportedTaskTypes, which the task JSON schema references as enums, and *)
(* republishes the serialized schema to the in-memory resource store each  *)
(* time one of the arrays is recomputed.                                   *)
(*                                                                         *)
(* Strings are sequences of UTF-16 code units, so that startsWith('$'),    *)
(* the `$${name}` template and Array.prototype.sort() are computed as the  *)
(* code computes them.                                                     *)
(***************************************************************************)
EXTENDS Integers, Sequences, FiniteSets, TLC

(***************************************************************************)
(* Bounds of the model.                                                    *)
(***************************************************************************)
\* largest number of problem matchers held by the registry
MaxMatchers == 2
\* largest number of task definitions held by the local registry
MaxDefs == 2
\* number of updateSupportedTaskTypes() invocations (the one of init included)
MaxCalls == 3
\* number of problem matcher change notifications that are delivered
MaxMatcherNotifs == 2
\* number of calls of update() from outside the class
MaxDirectUpdates == 1

(***************************************************************************)
(* Strings.                                                                *)
(***************************************************************************)
\* '$', the character tested and prepended at line 100
Dollar == 36

str_foo == <<102, 111, 111>>
str_dfoo == <<36, 102, 111, 111>>
str_dbar == <<36, 98, 97, 114>>
str_shell == <<115, 104, 101, 108, 108>>
str_process == <<112, 114, 111, 99, 101, 115, 115>>
str_custom == <<99, 117, 115, 116, 111, 109>>
str_remote1 == <<114, 101, 109, 111, 116, 101, 49>>

\* raw names a problem matcher contribution may carry: "foo", "$foo", "$bar"
MatcherNames == {str_foo, str_dfoo, str_dbar}
\* task types of locally contributed task definitions: "custom", "shell"
LocalTypes == {str_custom, str_shell}
\* what the matcher registry may hold when the updater is constructed
StartMatchers == { <<>>, <<str_foo>>, <<str_dbar>>, <<str_foo, str_dfoo>> }
\* what the task definition registry may hold when the updater is constructed
StartDefinitions == { <<>>, <<str_custom>>, <<str_shell, str_custom>> }
\* lists the task server may answer with
RemoteReplies ==
    { <<>>,
      <<str_remote1>>,
      <<str_shell, str_process>>,
      <<str_remote1, str_custom, str_remote1>> }

\* the value that stands for "no resource under the uri"
None == "none"

(***************************************************************************)
(* Helpers on sequences.                                                   *)
(***************************************************************************)
SetOf(s) == { s[i] : i \in 1..Len(s) }

NoDuplicates(s) == \A i, j \in 1..Len(s) : i # j => s[i] # s[j]

RemoveAt(s, i) == [ k \in 1..(Len(s) - 1) |-> IF k < i THEN s[k] ELSE s[k + 1] ]

\* String.prototype.startsWith('$')
startsWithDollar(name) == Len(name) > 0 /\ name[1] = Dollar

\* comparison of two strings by code units, the default order of sort()
RECURSIVE StrLess(_, _)
StrLess(a, b) ==
    IF Len(b) = 0 THEN FALSE
    ELSE IF Len(a) = 0 THEN TRUE
    ELSE IF a[1] # b[1] THEN a[1] < b[1]
    ELSE StrLess(Tail(a), Tail(b))

\* new Set([...]) followed by Array.from(set.values()): first occurrences,
\* in insertion order
RECURSIVE SetValues(_)
SetValues(s) ==
    IF Len(s) = 0 THEN <<>>
    ELSE LET init == SetValues(SubSeq(s, 1, Len(s) - 1))
             last == s[Len(s)]
         IN  IF last \in SetOf(init) THEN init ELSE Append(init, last)

\* insertion of x into a sorted sequence
RECURSIVE InsertSorted(_, _)
InsertSorted(x, s) ==
    IF Len(s) = 0 THEN <<x>>
    ELSE IF StrLess(x, s[1]) THEN <<x>> \o s
    ELSE <<s[1]>> \o InsertSorted(x, Tail(s))

\* Array.prototype.sort() without a comparator
RECURSIVE sort(_)
sort(s) ==
    IF Len(s) = 0 THEN <<>>
    ELSE InsertSorted(s[1], sort(Tail(s)))

(***************************************************************************)
(* State.                                                                  *)
(***************************************************************************)
VARIABLES
    pc,                      \* "constructed" before init(), "ready" after it, "initFailed" if it threw
    subscriptions,           \* the registry events init() has subscribed to
    problemMatcherRegistry,  \* names of getAll() of the matcher registry, in enumeration order
    taskDefinitionRegistry,  \* taskType of getAll() of the task definition registry
    problemMatcherNames,     \* module-level array, line 162
    supportedTaskTypes,      \* module-level array, line 163
    store,                   \* content of the in-memory resource under taskSchemaId, or None
    updateCalls,             \* calls of update()
    addCalls,                \* calls of inmemoryResources.add
    registerSchemaCalls,     \* calls of jsonSchemaStore.registerSchema
    matcherNotifs,           \* problem matcher change notifications delivered
    taskNotifs,              \* task definition register/unregister notifications delivered
    directUpdates,           \* calls of the public update() from outside the class
    calls,                   \* state of each updateSupportedTaskTypes() invocation
    lastDone,                \* invocation that resumed most recently with a result, 0 if none
    lastReply,               \* serverSupportedTypes that invocation received
    freshSinceChange,        \* an invocation has resumed with a result since the local task
                             \* definition registry last changed
    heldBody                 \* the body returned by getTaskSchema() that a caller still holds, if any

vars == << pc, subscriptions, problemMatcherRegistry, taskDefinitionRegistry, problemMatcherNames,
           supportedTaskTypes, store, updateCalls, addCalls, registerSchemaCalls,
           matcherNotifs, taskNotifs, directUpdates, calls, lastDone, lastReply,
           freshSinceChange, heldBody >>

CallIds == 1..MaxCalls

\* const supportedTaskTypes = ['shell', 'process']
DefaultTaskTypes == <<str_shell, str_process>>

\* the three subscriptions of init(), lines 50, 52 and 53
AllSubscriptions ==
    { "onDidChangeProblemMatcher", "onDidRegisterTaskDefinition", "onDidUnregisterTaskDefinition" }

(***************************************************************************)
(* Pure parts of the updater.                                              *)
(***************************************************************************)
\* m.name.startsWith('$') ? m.name : `$${m.name}`
NormalizeAlwaysPrepend(name) == <<Dollar>> \o name
NormalizeName(name) == IF startsWithDollar(name) THEN name ELSE <<Dollar>> \o name

\* this.problemMatcherRegistry.getAll().map(...)
MatcherNamesOf(registry) == [ i \in 1..Len(registry) |-> NormalizeName(registry[i]) ]

\* getRegisteredTaskTypes() once the server has answered
getRegisteredTaskTypesUnsorted(serverSupportedTypes, browserSupportedTypes) ==
    SetValues(serverSupportedTypes \o browserSupportedTypes)
getRegisteredTaskTypesServerOnly(serverSupportedTypes, browserSupportedTypes) ==
    sort(SetValues(serverSupportedTypes))
getRegisteredTaskTypes(serverSupportedTypes, browserSupportedTypes) ==
    sort(SetValues(serverSupportedTypes \o browserSupportedTypes))

\* An array inside a schema body is either a copy of its own (its items are
\* fixed) or the module-level array itself (its items are whatever that array
\* holds when the body is read).
deepClone(array) == [ shared |-> FALSE, items |-> array ]
SameArray(array) == [ shared |-> TRUE, items |-> array ]
ReadArray(slot, current) == IF slot.shared THEN current ELSE slot.items

\* getTaskSchema(): the template, whose enums refer to the two arrays, cloned
getTaskSchemaNoClone(types, matchers) ==
    [ typeEnum |-> SameArray(types),
      problemMatcherEnum |-> SameArray(matchers),
      problemMatcherItemsEnum |-> SameArray(matchers) ]
getTaskSchema(types, matchers) ==
    [ typeEnum |-> deepClone(types),
      problemMatcherEnum |-> deepClone(matchers),
      problemMatcherItemsEnum |-> deepClone(matchers) ]

\* what reading a body gives while the arrays hold types and matchers
BodyView(body, types, matchers) ==
    << ReadArray(body.typeEnum, types),
       ReadArray(body.problemMatcherEnum, matchers),
       ReadArray(body.problemMatcherItemsEnum, matchers) >>

\* JSON.stringify(this.getTaskSchema()); the fixed text of the template is left out
getStrigifiedTaskSchemaStamped(types, matchers) ==
    BodyView(getTaskSchema(types, matchers), types, matchers) \o << updateCalls >>
getStrigifiedTaskSchema(types, matchers) ==
    BodyView(getTaskSchema(types, matchers), types, matchers)

\* the enums read back from a stored document
TypeEnumOf(content) == content[1]
MatcherEnumOf(content) == content[2]
MatcherItemsEnumOf(content) == content[3]

(***************************************************************************)
(* Collaborators.                                                          *)
(***************************************************************************)
\* InMemoryResources.update throws when no resource exists under the uri
InMemoryUpdateThrows == store = None

(***************************************************************************)
(* update(), with the arrays as the calling handler has just set them.     *)
(***************************************************************************)
updateAlwaysAdds(types, matchers) ==
    /\ updateCalls' = updateCalls + 1
    /\ store' = getStrigifiedTaskSchema(types, matchers)
    /\ addCalls' = addCalls + 1
    /\ registerSchemaCalls' = registerSchemaCalls + 1

updateOnlyWhenAbsent(types, matchers) ==
    /\ updateCalls' = updateCalls + 1
    /\ IF InMemoryUpdateThrows
       THEN /\ store' = getStrigifiedTaskSchema(types, matchers)
            /\ addCalls' = addCalls + 1
            /\ registerSchemaCalls' = registerSchemaCalls + 1
       ELSE UNCHANGED << store, addCalls, registerSchemaCalls >>

update(types, matchers) ==
    LET schemaContent == getStrigifiedTaskSchema(types, matchers)
    IN  /\ updateCalls' = updateCalls + 1
        /\ IF InMemoryUpdateThrows
           THEN /\ store' = schemaContent
                /\ addCalls' = addCalls + 1
                /\ registerSchemaCalls' = registerSchemaCalls + 1
           ELSE /\ store' = schemaContent
                /\ UNCHANGED << addCalls, registerSchemaCalls >>

\* update() when inmemoryResources.add throws in the catch block: line 63 is
\* not reached and the exception leaves update()
updateAddThrows ==
    /\ InMemoryUpdateThrows
    /\ updateCalls' = updateCalls + 1
    /\ addCalls' = addCalls + 1
    /\ UNCHANGED << store, registerSchemaCalls >>

(***************************************************************************)
(* updateProblemMatcherNames(), reading the registry as given.             *)
(***************************************************************************)
updateProblemMatcherNamesNoClear(registry) ==
    /\ problemMatcherNames' = problemMatcherNames \o MatcherNamesOf(registry)
    /\ update(supportedTaskTypes, problemMatcherNames')

updateProblemMatcherNamesNoPublish(registry) ==
    /\ problemMatcherNames' = MatcherNamesOf(registry)
    /\ UNCHANGED << store, updateCalls, addCalls, registerSchemaCalls >>

updateProblemMatcherNames(registry) ==
    /\ problemMatcherNames' = MatcherNamesOf(registry)
    /\ update(supportedTaskTypes, problemMatcherNames')

(***************************************************************************)
(* updateSupportedTaskTypes(): the part up to the await, which starts the  *)
(* remote call, and the two ways the await ends.                           *)
(***************************************************************************)
NextCall == CHOOSE i \in CallIds : calls[i] = "idle" /\ \A j \in CallIds : j < i => calls[j] # "idle"

CanStartCall == \E i \in CallIds : calls[i] = "idle"

startUpdateSupportedTaskTypesCoalesced ==
    IF \E i \in CallIds : calls[i] = "pending"
    THEN UNCHANGED calls
    ELSE calls' = [ calls EXCEPT ![NextCall] = "pending" ]

startUpdateSupportedTaskTypesCancelling ==
    calls' = [ i \in CallIds |->
                 IF i = NextCall THEN "pending"
                 ELSE IF calls[i] = "pending" THEN "rejected"
                 ELSE calls[i] ]

startUpdateSupportedTaskTypes ==
    calls' = [ calls EXCEPT ![NextCall] = "pending" ]

Init ==
    /\ pc = "constructed"
    /\ subscriptions = {}
    /\ problemMatcherRegistry \in StartMatchers
    /\ taskDefinitionRegistry \in StartDefinitions
    /\ problemMatcherNames = <<>>
    /\ supportedTaskTypes = DefaultTaskTypes
    /\ store = None
    /\ updateCalls = 0
    /\ addCalls = 0
    /\ registerSchemaCalls = 0
    /\ matcherNotifs = 0
    /\ taskNotifs = 0
    /\ directUpdates = 0
    /\ calls = [ i \in CallIds |-> "idle" ]
    /\ lastDone = 0
    /\ lastReply = <<>>
    /\ freshSinceChange = FALSE
    /\ heldBody = <<>>

\* init(): both updates up to the first await, then the three subscriptions
PostConstruct ==
    /\ pc = "constructed"
    /\ pc' = "ready"
    /\ updateProblemMatcherNames(problemMatcherRegistry)
    /\ startUpdateSupportedTaskTypes
    /\ subscriptions' = AllSubscriptions
    /\ UNCHANGED << problemMatcherRegistry, taskDefinitionRegistry, supportedTaskTypes,
                    matcherNotifs, taskNotifs, directUpdates, lastDone, lastReply,
                    freshSinceChange, heldBody >>

\* init() when inmemoryResources.add throws inside the update() of line 47:
\* the exception leaves init(), lines 48 to 53 do not run
PostConstructAddThrows ==
    /\ pc = "constructed"
    /\ pc' = "initFailed"
    /\ problemMatcherNames' = MatcherNamesOf(problemMatcherRegistry)
    /\ updateAddThrows
    /\ UNCHANGED << subscriptions, problemMatcherRegistry, taskDefinitionRegistry,
                    supportedTaskTypes, matcherNotifs, taskNotifs, directUpdates, calls,
                    lastDone, lastReply, freshSinceChange, heldBody >>

\* the change event of the matcher registry: the listener of line 50, if it
\* has been installed, runs updateProblemMatcherNames
fireDidChangeProblemMatcher ==
    IF "onDidChangeProblemMatcher" \in subscriptions
    THEN /\ matcherNotifs' = matcherNotifs + 1
         /\ updateProblemMatcherNames(problemMatcherRegistry')
    ELSE UNCHANGED << matcherNotifs, problemMatcherNames, store, updateCalls, addCalls,
                      registerSchemaCalls >>

\* an event of the task definition registry: the listener of line 52 or 53,
\* if it has been installed, starts updateSupportedTaskTypes
fireTaskDefinitionEvent(event) ==
    IF event \in subscriptions
    THEN /\ taskNotifs' = taskNotifs + 1
         /\ startUpdateSupportedTaskTypes
    ELSE UNCHANGED << taskNotifs, calls >>

\* a matcher is added to the registry, which fires its change event
RegisterMatcher(name) ==
    /\ pc # "constructed"
    /\ matcherNotifs < MaxMatcherNotifs
    /\ Len(problemMatcherRegistry) < MaxMatchers
    /\ name \notin SetOf(problemMatcherRegistry)
    /\ problemMatcherRegistry' = Append(problemMatcherRegistry, name)
    /\ fireDidChangeProblemMatcher
    /\ UNCHANGED << pc, subscriptions, taskDefinitionRegistry, supportedTaskTypes, taskNotifs,
                    directUpdates, calls, lastDone, lastReply, freshSinceChange, heldBody >>

\* a matcher is disposed, which fires the change event of the registry
UnregisterMatcher(i) ==
    /\ pc # "constructed"
    /\ matcherNotifs < MaxMatcherNotifs
    /\ i \in 1..Len(problemMatcherRegistry)
    /\ problemMatcherRegistry' = RemoveAt(problemMatcherRegistry, i)
    /\ fireDidChangeProblemMatcher
    /\ UNCHANGED << pc, subscriptions, taskDefinitionRegistry, supportedTaskTypes, taskNotifs,
                    directUpdates, calls, lastDone, lastReply, freshSinceChange, heldBody >>

\* a task definition is registered, which fires onDidRegisterTaskDefinition
RegisterTaskDefinition(taskType) ==
    /\ pc # "constructed"
    /\ CanStartCall
    /\ Len(taskDefinitionRegistry) < MaxDefs
    /\ taskDefinitionRegistry' = Append(taskDefinitionRegistry, taskType)
    /\ freshSinceChange' = FALSE
    /\ fireTaskDefinitionEvent("onDidRegisterTaskDefinition")
    /\ UNCHANGED << pc, subscriptions, problemMatcherRegistry, problemMatcherNames,
                    supportedTaskTypes, store, updateCalls, addCalls, registerSchemaCalls,
                    matcherNotifs, directUpdates, lastDone, lastReply, heldBody >>

\* a task definition is removed, which fires onDidUnregisterTaskDefinition
UnregisterTaskDefinition(i) ==
    /\ pc # "constructed"
    /\ CanStartCall
    /\ i \in 1..Len(taskDefinitionRegistry)
    /\ taskDefinitionRegistry' = RemoveAt(taskDefinitionRegistry, i)
    /\ freshSinceChange' = FALSE
    /\ fireTaskDefinitionEvent("onDidUnregisterTaskDefinition")
    /\ UNCHANGED << pc, subscriptions, problemMatcherRegistry, problemMatcherNames,
                    supportedTaskTypes, store, updateCalls, addCalls, registerSchemaCalls,
                    matcherNotifs, directUpdates, lastDone, lastReply, heldBody >>

\* the remote call of invocation i resolves with serverSupportedTypes:
\* lines 73-75, then lines 109-111
ResumeFetchInOrderOnly(i, serverSupportedTypes) ==
    /\ calls[i] = "pending"
    /\ calls' = [ calls EXCEPT ![i] = "done" ]
    /\ lastDone' = i
    /\ lastReply' = serverSupportedTypes
    /\ freshSinceChange' = TRUE
    /\ IF i > lastDone
       THEN /\ supportedTaskTypes' =
                   getRegisteredTaskTypes(serverSupportedTypes, taskDefinitionRegistry)
            /\ update(supportedTaskTypes', problemMatcherNames)
       ELSE UNCHANGED << supportedTaskTypes, store, updateCalls, addCalls, registerSchemaCalls >>
    /\ UNCHANGED << pc, subscriptions, problemMatcherRegistry, taskDefinitionRegistry,
                    problemMatcherNames, matcherNotifs, taskNotifs, directUpdates, heldBody >>

ResumeFetchNoClear(i, serverSupportedTypes) ==
    /\ calls[i] = "pending"
    /\ calls' = [ calls EXCEPT ![i] = "done" ]
    /\ lastDone' = i
    /\ lastReply' = serverSupportedTypes
    /\ freshSinceChange' = TRUE
    /\ supportedTaskTypes' =
           supportedTaskTypes \o getRegisteredTaskTypes(serverSupportedTypes, taskDefinitionRegistry)
    /\ update(supportedTaskTypes', problemMatcherNames)
    /\ UNCHANGED << pc, subscriptions, problemMatcherRegistry, taskDefinitionRegistry,
                    problemMatcherNames, matcherNotifs, taskNotifs, directUpdates, heldBody >>

ResumeFetchClearsMatchers(i, serverSupportedTypes) ==
    /\ calls[i] = "pending"
    /\ calls' = [ calls EXCEPT ![i] = "done" ]
    /\ lastDone' = i
    /\ lastReply' = serverSupportedTypes
    /\ freshSinceChange' = TRUE
    /\ supportedTaskTypes' = getRegisteredTaskTypes(serverSupportedTypes, taskDefinitionRegistry)
    /\ problemMatcherNames' = <<>>
    /\ update(supportedTaskTypes', problemMatcherNames')
    /\ UNCHANGED << pc, subscriptions, problemMatcherRegistry, taskDefinitionRegistry,
                    matcherNotifs, taskNotifs, directUpdates, heldBody >>

ResumeFetch(i, serverSupportedTypes) ==
    /\ calls[i] = "pending"
    /\ calls' = [ calls EXCEPT ![i] = "done" ]
    /\ lastDone' = i
    /\ lastReply' = serverSupportedTypes
    /\ freshSinceChange' = TRUE
    /\ supportedTaskTypes' = getRegisteredTaskTypes(serverSupportedTypes, taskDefinitionRegistry)
    /\ update(supportedTaskTypes', problemMatcherNames)
    /\ UNCHANGED << pc, subscriptions, problemMatcherRegistry, taskDefinitionRegistry,
                    problemMatcherNames, matcherNotifs, taskNotifs, directUpdates, heldBody >>

\* the remote call of invocation i rejects: the await at line 72 throws, the
\* await at line 108 throws, and the promise of updateSupportedTaskTypes rejects
FailFetchClearsFirst(i) ==
    /\ calls[i] = "pending"
    /\ calls' = [ calls EXCEPT ![i] = "rejected" ]
    /\ supportedTaskTypes' = <<>>
    /\ UNCHANGED << pc, subscriptions, problemMatcherRegistry, taskDefinitionRegistry,
                    problemMatcherNames, store, updateCalls, addCalls, registerSchemaCalls,
                    matcherNotifs, taskNotifs, directUpdates, lastDone, lastReply,
                    freshSinceChange, heldBody >>

FailFetchUnsubscribes(i) ==
    /\ calls[i] = "pending"
    /\ calls' = [ calls EXCEPT ![i] = "rejected" ]
    /\ subscriptions' = {}
    /\ UNCHANGED << pc, problemMatcherRegistry, taskDefinitionRegistry,
                    problemMatcherNames, supportedTaskTypes, store, updateCalls, addCalls,
                    registerSchemaCalls, matcherNotifs, taskNotifs, directUpdates, lastDone,
                    lastReply, freshSinceChange, heldBody >>

FailFetch(i) ==
    /\ calls[i] = "pending"
    /\ calls' = [ calls EXCEPT ![i] = "rejected" ]
    /\ UNCHANGED << pc, subscriptions, problemMatcherRegistry, taskDefinitionRegistry,
                    problemMatcherNames, supportedTaskTypes, store, updateCalls, addCalls,
                    registerSchemaCalls, matcherNotifs, taskNotifs, directUpdates, lastDone,
                    lastReply, freshSinceChange, heldBody >>

\* update() is public: a holder of the updater calls it
DirectUpdate ==
    /\ pc = "ready"
    /\ directUpdates < MaxDirectUpdates
    /\ directUpdates' = directUpdates + 1
    /\ update(supportedTaskTypes, problemMatcherNames)
    /\ UNCHANGED << pc, subscriptions, problemMatcherRegistry, taskDefinitionRegistry,
                    problemMatcherNames, supportedTaskTypes, matcherNotifs, taskNotifs, calls,
                    lastDone, lastReply, freshSinceChange, heldBody >>

\* getTaskSchema() is public: a holder of the updater calls it and keeps the body
AssembleSchema ==
    /\ pc = "ready"
    /\ heldBody' = << getTaskSchema(supportedTaskTypes, problemMatcherNames) >>
    /\ UNCHANGED << pc, subscriptions, problemMatcherRegistry, taskDefinitionRegistry,
                    problemMatcherNames, supportedTaskTypes, store, updateCalls, addCalls,
                    registerSchemaCalls, matcherNotifs, taskNotifs, directUpdates, calls,
                    lastDone, lastReply, freshSinceChange >>

Next ==
    \/ PostConstruct
    \/ \E name \in MatcherNames : RegisterMatcher(name)
    \/ \E i \in 1..MaxMatchers : UnregisterMatcher(i)
    \/ \E taskType \in LocalTypes : RegisterTaskDefinition(taskType)
    \/ \E i \in 1..MaxDefs : UnregisterTaskDefinition(i)
    \/ \E i \in CallIds, reply \in RemoteReplies : ResumeFetch(i, reply)
    \/ \E i \in CallIds : FailFetch(i)

\* the updater alone, driven by the registries and the task server
Spec == Init /\ [][Next]_vars

\* construction while both registries are still empty
InitEmpty ==
    /\ Init
    /\ problemMatcherRegistry = <<>>
    /\ taskDefinitionRegistry = <<>>

\* the updater with a resource store whose add may throw and with direct calls of update()
NextStore ==
    \/ Next
    \/ PostConstructAddThrows
    \/ DirectUpdate

SpecStore == InitEmpty /\ [][NextStore]_vars

\* the updater with callers of getTaskSchema()
NextAssembly ==
    \/ Next
    \/ AssembleSchema

SpecAssembly == InitEmpty /\ [][NextAssembly]_vars

(***************************************************************************)
(* Properties.                                                             *)
(***************************************************************************)
IsSorted(s) == \A i \in 1..(Len(s) - 1) : ~StrLess(s[i + 1], s[i])

NormalizedRegistryNames == { NormalizeName(n) : n \in SetOf(problemMatcherRegistry) }

Published == store # None

\* C1: once a matcher notification has been handled, the matcher-name enums of
\* the published schema hold exactly the normalized names of the matchers that
\* are in the registry: each registered one, and none that was removed.
C1_MatcherEnumMatchesRegistry ==
    pc = "ready" =>
        /\ Published
        /\ SetOf(MatcherEnumOf(store)) = NormalizedRegistryNames
        /\ SetOf(MatcherItemsEnumOf(store)) = NormalizedRegistryNames

\* two notifications handled, the second of which can only have been reached
\* through a removal, leave "$bar" alone in the registry
C1_Witness ==
    /\ matcherNotifs = 2
    /\ problemMatcherRegistry = <<str_dbar>>
    /\ Published
    /\ MatcherEnumOf(store) = <<str_dbar>>

\* C2: after each recomputation problemMatcherNames has no duplicate entry and
\* is in sorted order, whatever the registry holds and in whatever order.
C2_NoDuplicatesAndSorted ==
    pc = "ready" =>
        /\ NoDuplicates(problemMatcherNames)
        /\ IsSorted(problemMatcherNames)

\* C3: a raw name that starts with "$" is stored as it is, any other one with
\* one "$" in front of it: each entry starts with "$", "foo" gives "$foo",
\* "$bar" gives "$bar", and normalizing an entry again changes nothing.
C3_SigilNormalization ==
    pc = "ready" =>
        /\ Len(problemMatcherNames) = Len(problemMatcherRegistry)
        /\ \A i \in 1..Len(problemMatcherNames) :
              LET raw == problemMatcherRegistry[i]
                  entry == problemMatcherNames[i]
              IN  /\ startsWithDollar(entry)
                  /\ startsWithDollar(raw) => entry = raw
                  /\ ~startsWithDollar(raw) => (Len(entry) = Len(raw) + 1 /\ Tail(entry) = raw)
                  /\ raw = str_foo => entry = str_dfoo
                  /\ raw = str_dbar => entry = str_dbar
                  /\ NormalizeName(entry) = entry

C3_Witness ==
    /\ pc = "ready"
    /\ matcherNotifs > 0
    /\ problemMatcherRegistry = <<str_foo, str_dbar>>
    /\ problemMatcherNames = <<str_dfoo, str_dbar>>

\* C4: in each reachable state and in each published document the task types
\* are not empty and contain "shell" and "process".
C4_DefaultsAlwaysPresent ==
    /\ Len(supportedTaskTypes) > 0
    /\ { str_shell, str_process } \subseteq SetOf(supportedTaskTypes)
    /\ Published => { str_shell, str_process } \subseteq SetOf(TypeEnumOf(store))

\* C5: a successful run of updateSupportedTaskTypes publishes as type enum the
\* sorted, duplicate-free union of the defaults, the local task types and the
\* names the remote call returned.
C5_UnionOfThreeSources ==
    [][ \A i \in CallIds :
            (calls[i] = "pending" /\ calls'[i] = "done") =>
                TypeEnumOf(store') =
                    sort(SetValues(DefaultTaskTypes \o taskDefinitionRegistry \o lastReply')) ]_vars

\* C6 as stated: each published document, the first one included, has a type
\* enum without duplicates and in lexicographic order.
C6_EveryDocumentSorted ==
    Published =>
        /\ NoDuplicates(TypeEnumOf(store))
        /\ IsSorted(TypeEnumOf(store))

\* C6 amended: each published document has a type enum without duplicates; it
\* is in lexicographic order once a task type recomputation has completed, and
\* before that it is the initial list "shell", "process".
C6_DocumentsSortedAfterRecomputation ==
    Published =>
        /\ NoDuplicates(TypeEnumOf(store))
        /\ lastDone # 0 => IsSorted(TypeEnumOf(store))
        /\ lastDone = 0 => TypeEnumOf(store) = DefaultTaskTypes

\* a recomputation whose server list repeats a name and is not in order
C6_Witness ==
    /\ Published
    /\ lastDone # 0
    /\ lastReply = <<str_remote1, str_custom, str_remote1>>
    /\ str_shell \in SetOf(taskDefinitionRegistry)
    /\ TypeEnumOf(store) = <<str_custom, str_remote1, str_shell>>

\* C7: with a store whose update fails only when the document is absent, the
\* first publication adds the resource and registers the schema and each later
\* one only updates, so add and registerSchema are each called exactly once.
C7_RegisteredExactlyOnce ==
    /\ pc = "constructed" => (~Published /\ addCalls = 0 /\ registerSchemaCalls = 0)
    /\ pc = "ready" => (Published /\ addCalls = 1 /\ registerSchemaCalls = 1)

\* several publications, among them one by a notification and one by a resumed
\* recomputation, while another recomputation is still in flight
C7_Witness ==
    /\ updateCalls >= 3
    /\ matcherNotifs >= 1
    /\ lastDone # 0
    /\ \E i \in CallIds : calls[i] = "pending"
    /\ addCalls = 1
    /\ registerSchemaCalls = 1

\* C8: when the remote call of a recomputation fails, supportedTaskTypes is
\* what it was before, nothing is published (no update, add or registerSchema
\* call), and the invocation of updateSupportedTaskTypes ends as rejected.
C8_FailedFetchChangesNothing ==
    [][ \A i \in CallIds :
            (calls[i] = "pending" /\ calls'[i] \notin { "pending", "done" }) =>
                /\ calls'[i] = "rejected"
                /\ supportedTaskTypes' = supportedTaskTypes
                /\ problemMatcherNames' = problemMatcherNames
                /\ store' = store
                /\ updateCalls' = updateCalls
                /\ addCalls' = addCalls
                /\ registerSchemaCalls' = registerSchemaCalls ]_vars

\* a recomputation has failed after an earlier one had replaced the defaults
C8_Witness ==
    /\ \E i \in CallIds : calls[i] = "rejected" /\ 0 < lastDone /\ lastDone < i
    /\ supportedTaskTypes # DefaultTaskTypes
    /\ Published

\* the stored document is the first one published and neither registry has
\* changed since the start
FirstDocumentInPlace ==
    /\ Published
    /\ updateCalls = 1
    /\ \A i \in CallIds : i > 1 => calls[i] = "idle"

\* C9 as stated: the first document is published after both arrays have been
\* recomputed, so its type enum holds the local task types present at start
\* and its matcher enum the matchers registered at start.
C9_FirstDocumentAccurate ==
    FirstDocumentInPlace =>
        /\ SetOf(taskDefinitionRegistry) \subseteq SetOf(TypeEnumOf(store))
        /\ SetOf(MatcherEnumOf(store)) = NormalizedRegistryNames

\* C9 amended: the first document is published by updateProblemMatcherNames
\* before any task type recomputation has completed: its matcher enum holds
\* the matchers registered at start and its type enum is the initial list
\* "shell", "process".
C9_FirstDocumentHasDefaultTypes ==
    FirstDocumentInPlace =>
        /\ lastDone = 0
        /\ calls[1] \in { "pending", "rejected" }
        /\ TypeEnumOf(store) = DefaultTaskTypes
        /\ MatcherEnumOf(store) = MatcherNamesOf(problemMatcherRegistry)
        /\ SetOf(MatcherEnumOf(store)) = NormalizedRegistryNames

\* the first document of a start with a local task type and a matcher
C9_Witness ==
    /\ FirstDocumentInPlace
    /\ taskDefinitionRegistry = <<str_custom>>
    /\ problemMatcherRegistry = <<str_foo>>
    /\ calls[1] = "pending"

\* C10: with two recomputations in flight, the one that resumes last decides
\* supportedTaskTypes and the published type enum, also when it was started by
\* the earlier notification.
C10_LastResumedDecides ==
    lastDone # 0 =>
        /\ Published
        /\ TypeEnumOf(store) = supportedTaskTypes
        /\ SetOf(lastReply) \subseteq SetOf(supportedTaskTypes)
        /\ SetOf(supportedTaskTypes) \subseteq SetOf(lastReply) \cup LocalTypes

\* invocations 2 and 3 were started by notifications, 3 resumed first with a
\* list that names "remote1", 2 resumed after it with the empty list
C10_Witness ==
    /\ MaxCalls >= 3
    /\ calls[2] = "done"
    /\ calls[3] = "done"
    /\ lastDone = 2
    /\ lastReply = <<>>
    /\ str_remote1 \notin SetOf(supportedTaskTypes)

Started == { i \in CallIds : calls[i] # "idle" }
Resumed == { i \in CallIds : calls[i] = "done" }
InFlight == { i \in CallIds : calls[i] = "pending" }

\* C11: no published document is torn: its type enum is the whole result of
\* one task type recomputation (or the initial list), its two matcher enums
\* are the whole result of one matcher recomputation, and both are what the
\* arrays hold at that moment.
C11_NoTornDocument ==
    Published =>
        /\ TypeEnumOf(store) = supportedTaskTypes
        /\ MatcherEnumOf(store) = problemMatcherNames
        /\ MatcherItemsEnumOf(store) = problemMatcherNames
        /\ IF lastDone = 0
           THEN TypeEnumOf(store) = DefaultTaskTypes
           ELSE /\ NoDuplicates(TypeEnumOf(store))
                /\ IsSorted(TypeEnumOf(store))
                /\ SetOf(lastReply) \subseteq SetOf(TypeEnumOf(store))
                /\ SetOf(TypeEnumOf(store)) \subseteq SetOf(lastReply) \cup LocalTypes
        /\ Len(MatcherEnumOf(store)) = Len(problemMatcherRegistry)
        /\ \A k \in 1..Len(problemMatcherRegistry) :
               MatcherEnumOf(store)[k] \in
                   { problemMatcherRegistry[k], <<Dollar>> \o problemMatcherRegistry[k] }

\* matcher notifications, a completed, a failed and a suspended recomputation
C11_Witness ==
    /\ Published
    /\ matcherNotifs >= 1
    /\ lastDone # 0
    /\ Len(supportedTaskTypes) >= 2
    /\ \E i \in CallIds : calls[i] = "rejected"
    /\ InFlight # {}

C13_OneCyclePerNotification ==
    pc = "ready" =>
        /\ Cardinality(Started) = 1 + taskNotifs
        /\ updateCalls = 1 + matcherNotifs + Cardinality(Resumed)
        /\ Started = Resumed => updateCalls = 2 + matcherNotifs + taskNotifs

C13_Witness ==
    /\ pc = "ready"
    /\ matcherNotifs >= 2
    /\ taskNotifs >= 2
    /\ Started = Resumed
    /\ updateCalls = 2 + matcherNotifs + taskNotifs

\* C14: nothing is cancelled: a suspended recomputation stays suspended until
\* its own fetch settles, no notification ends it, and when its fetch resolves
\* it replaces supportedTaskTypes and publishes, however many later
\* notifications have arrived or later recomputations have completed meanwhile.
C14_NoCancellation ==
    [][ \A i \in CallIds :
            calls[i] = "pending" =>
                /\ calls'[i] \in { "pending", "done", "rejected" }
                /\ calls'[i] # "pending" =>
                       /\ \A j \in CallIds \ { i } : calls'[j] = calls[j]
                       /\ taskNotifs' = taskNotifs
                /\ calls'[i] = "done" =>
                       /\ supportedTaskTypes' = sort(SetValues(lastReply' \o taskDefinitionRegistry))
                       /\ updateCalls' = updateCalls + 1
                       /\ TypeEnumOf(store') = supportedTaskTypes' ]_vars

\* the recomputation started by init() resumed after the two that later
\* notifications started had already completed
C14_Witness ==
    /\ calls[2] = "done"
    /\ calls[3] = "done"
    /\ lastDone = 1
    /\ taskNotifs >= 2
    /\ TypeEnumOf(store) = supportedTaskTypes

\* C15: each matcher notification recomputes and publishes within its own
\* step, so after it the published matcher enums are the names of the registry
\* as of that notification, and no other step (a task type recomputation that
\* starts, resumes or fails) changes the matcher enums.
C15_MatcherPathOrdered ==
    [][ /\ matcherNotifs' = matcherNotifs + 1 =>
              /\ updateCalls' = updateCalls + 1
              /\ Published'
              /\ MatcherEnumOf(store') = MatcherNamesOf(problemMatcherRegistry')
              /\ MatcherItemsEnumOf(store') = MatcherNamesOf(problemMatcherRegistry')
              /\ calls' = calls
        /\ (matcherNotifs' = matcherNotifs /\ Published) =>
              /\ problemMatcherNames' = problemMatcherNames
              /\ MatcherEnumOf(store') = MatcherEnumOf(store)
              /\ MatcherItemsEnumOf(store') = MatcherItemsEnumOf(store) ]_vars

\* two matcher notifications handled around task type recomputations, one of
\* which has resumed and one of which is still suspended
C15_Witness ==
    /\ matcherNotifs = 2
    /\ lastDone # 0
    /\ InFlight # {}
    /\ Len(problemMatcherRegistry) >= 1
    /\ MatcherEnumOf(store) = MatcherNamesOf(problemMatcherRegistry)

\* C16: when add throws on the fallback path, registerSchema is not called
\* and no document exists afterwards, and the next triggering event attempts
\* the publication again, by the add path, with the arrays as they then are.
C16_NextTriggerRetries ==
    [][ /\ (addCalls' = addCalls + 1 /\ ~Published') =>
              registerSchemaCalls' = registerSchemaCalls
        /\ (pc # "constructed" /\ ~Published
                /\ problemMatcherRegistry' # problemMatcherRegistry) =>
              /\ updateCalls' = updateCalls + 1
              /\ addCalls' = addCalls + 1
              /\ problemMatcherNames' = MatcherNamesOf(problemMatcherRegistry') ]_vars

\* C17: from the first publication on the document is always there and is not
\* added again, and after each step its content is the serialization of the
\* schema with what the two arrays then hold.
C17_DocumentTracksArrays ==
    [][ /\ Published' =>
              /\ addCalls' = 1
              /\ registerSchemaCalls' = 1
              /\ store' = getStrigifiedTaskSchema(supportedTaskTypes', problemMatcherNames')
        /\ Published => Published' ]_vars

C17_Witness ==
    /\ Published
    /\ updateCalls >= 4
    /\ matcherNotifs >= 1
    /\ lastDone # 0
    /\ supportedTaskTypes # DefaultTaskTypes
    /\ problemMatcherNames # <<>>
    /\ store = << supportedTaskTypes, problemMatcherNames, problemMatcherNames >>

\* C18: a recomputation reads the local registry when its fetch has resolved:
\* once one has completed since the local registry last changed, the published
\* type enum holds each local task type now registered, whichever one it was.
C18_LocalTypesReadAtCompletion ==
    freshSinceChange =>
        /\ SetOf(taskDefinitionRegistry) \subseteq SetOf(supportedTaskTypes)
        /\ Published
        /\ SetOf(taskDefinitionRegistry) \subseteq SetOf(TypeEnumOf(store))

\* the recomputation of init() resumed last, after the registry change that
\* started the second one, with a server list that does not name "custom"
C18_Witness ==
    /\ InFlight = {}
    /\ freshSinceChange
    /\ lastDone = 1
    /\ calls[2] = "done"
    /\ lastReply = <<str_remote1>>
    /\ str_custom \in SetOf(taskDefinitionRegistry)
    /\ str_custom \in SetOf(TypeEnumOf(store))

\* C19: after a remote call has failed, the one of init() included, the three
\* subscriptions are in place and work goes on: a matcher change publishes, a
\* task definition change starts a fetch, and a fetch that resolves replaces
\* supportedTaskTypes and publishes.
C19_FailureDoesNotDisable ==
    [][ (\E i \in CallIds : calls'[i] = "rejected") =>
            /\ subscriptions' = AllSubscriptions
            /\ problemMatcherRegistry' # problemMatcherRegistry =>
                   /\ updateCalls' = updateCalls + 1
                   /\ MatcherEnumOf(store') = MatcherNamesOf(problemMatcherRegistry')
            /\ taskDefinitionRegistry' # taskDefinitionRegistry =>
                   Cardinality(Started') = Cardinality(Started) + 1
            /\ lastDone' # lastDone =>
                   /\ updateCalls' = updateCalls + 1
                   /\ SetOf(lastReply') \subseteq SetOf(TypeEnumOf(store')) ]_vars

\* the fetch of init() failed; a later one resolved and a matcher changed
C19_Witness ==
    /\ calls[1] = "rejected"
    /\ lastDone >= 2
    /\ matcherNotifs >= 1
    /\ lastReply = <<str_remote1>>
    /\ str_remote1 \in SetOf(TypeEnumOf(store))
    /\ MatcherEnumOf(store) # <<>>

\* C20: getTaskSchema changes neither array nor the store, the body it
\* returns shows what the arrays hold at that moment, and a body that is held
\* shows the same afterwards, whatever recomputation follows.
C20_AssemblyReadOnlyAndCopied ==
    [][ /\ heldBody' # heldBody =>
              /\ supportedTaskTypes' = supportedTaskTypes
              /\ problemMatcherNames' = problemMatcherNames
              /\ store' = store
              /\ BodyView(heldBody'[1], supportedTaskTypes', problemMatcherNames') =
                     << supportedTaskTypes, problemMatcherNames, problemMatcherNames >>
        /\ (heldBody # <<>> /\ heldBody' = heldBody) =>
              BodyView(heldBody'[1], supportedTaskTypes', problemMatcherNames') =
                  BodyView(heldBody[1], supportedTaskTypes, problemMatcherNames) ]_vars

\* a body assembled before both arrays were recomputed is still held
C20_Witness ==
    /\ heldBody # <<>>
    /\ lastDone # 0
    /\ BodyView(heldBody[1], supportedTaskTypes, problemMatcherNames)[1] # supportedTaskTypes
    /\ BodyView(heldBody[1], supportedTaskTypes, problemMatcherNames)[2] # problemMatcherNames
    /\ store = << supportedTaskTypes, problemMatcherNames, problemMatcherNames >>

====
